---------------------------- MODULE Spec2Model ----------------------------
(***************************************************************************)
(* Model of src/extract_vc_from_pdf.py, the hybrid (rules + optional LLM)  *)
(* extractor: Candidate Scanner (extract_vc_candidates), Role Tagger       *)
(* (flag_role), Rule Engine (rule_based_result), LLM Refiner (ask_llm),    *)
(* Merge Resolver (merge_results) and Batch Driver (collect_results).      *)
(*                                                                         *)
(* A Python str is a sequence of characters.  A character is a one-element *)
(* token: an ASCII character stands for itself, a Chinese character is     *)
(* written as a romanised token, one token per distinct character:         *)
(*   ji=U+57FA jin=U+91D1 (fund)      chuang=U+521B tou=U+6295             *)
(*   zi=U+8D44 ben=U+672C             ye=U+4E1A gong=U+516C si=U+53F8      *)
(*   feng=U+98CE xian=U+9669          gao=U+9AD8 xin=U+65B0 ke=U+79D1      *)
(*   fu=U+5BCC tian=U+5929 shi3=U+4F7F he=U+5408 huo=U+4F19                *)
(*   dong=U+8463 shi=U+4E8B zhang=U+957F jian=U+76D1                       *)
(*   ji2=U+7EA7 guan=U+7BA1 li=U+7406 ren=U+4EBA yuan=U+5458               *)
(*   zong=U+603B jing=U+7ECF fu4=U+526F zhi=U+6267 xing=U+884C             *)
(*   chi=U+6301 gu=U+80A1 piao=U+7968 dai=U+4EE3 ma=U+7801                 *)
(*   zheng=U+8BC1 quan=U+5238 jian3=U+7B80 cheng=U+79F0 fa=U+53D1          *)
(* "FWCOLON" is the full-width colon U+FF1A, "FWSEMI" U+FF1B, "FWCOMMA"    *)
(* U+FF0C, "DUN" U+3001.                                                   *)
(* "LF" is the line feed.                                                  *)
(***************************************************************************)
EXTENDS Integers, Sequences, FiniteSets, TLC

VARIABLES
    \* the world collect_results runs in
    listing,     \* os.listdir(INPUT_DIR): the directory entries, in its order
    client,      \* TRUE when an API key configured the OpenAI client
    out_state,   \* OUTPUT_CSV before the run: "absent", "present", "locked"
    disk,        \* the rows OUTPUT_CSV holds on disk
    \* collect_results
    pc,          \* position in collect_results
    files,       \* the .pdf entries of the listing
    done,        \* number of documents whose loop body has completed
    pdf_text,    \* locals of the loop body
    rule_guess,
    candidates,
    content,     \* response.choices[0].message.content (ask_llm)
    llm_result,
    merged,
    results,
    csv_file,    \* "None", "open" or "closed"
    buffer,      \* rows written to csv_file and not yet flushed
    exc,         \* the exception that left the loop ("" when none)
    \* the functions applied on their own
    fn,          \* which pure function is being applied ("" : none)
    fn_args,     \* its arguments
    fn_ret       \* None before the call, Some(return value) after it

worldVars == <<listing, client, out_state, disk>>
localVars == <<pdf_text, rule_guess, candidates, content, llm_result, merged>>
batchVars == <<worldVars, pc, files, done, localVars, results, csv_file, buffer, exc>>
fnVars == <<fn, fn_args, fn_ret>>
vars == <<batchVars, fnVars>>

----------------------------------------------------------------------------
(* Python str primitives                                                   *)

\* Optional values: None is the empty tuple, a present value v is <<v>>
None == <<>>
Some(v) == <<v>>

\* s[i:j] with 1-based inclusive bounds; empty when i > j
Slice(s, i, j) == [k \in 1..(j - i + 1) |-> s[i + k - 1]]

\* s.startswith(p)
StartsWith(s, p) == Len(p) <= Len(s) /\ Slice(s, 1, Len(p)) = p

\* p occurs in s at (1-based) position i
OccursAt(p, s, i) == i + Len(p) - 1 <= Len(s) /\ Slice(s, i, i + Len(p) - 1) = p

\* the Python expression  p in s  for two strings
In(p, s) == \E i \in 1..(Len(s) + 1) : OccursAt(p, s, i)

\* any(k in line for k in keywords)
AnyIn(keywords, line) == \E k \in keywords : In(k, line)

\* str.splitlines() for texts whose only line boundary is LF: a trailing LF
\* does not open a further line, and the empty text has no lines.
RECURSIVE SplitLinesFrom(_, _, _)
SplitLinesFrom(s, i, cur) ==
    IF i > Len(s) THEN (IF cur = <<>> THEN <<>> ELSE <<cur>>)
    ELSE IF s[i] = "LF" THEN <<cur>> \o SplitLinesFrom(s, i + 1, <<>>)
    ELSE SplitLinesFrom(s, i + 1, Append(cur, s[i]))

splitlines(s) == SplitLinesFrom(s, 1, <<>>)

----------------------------------------------------------------------------
(* Keyword tables                                                          *)

VC_KEYWORDS ==
    { <<"chuang", "tou">>, <<"chuang", "ye", "tou", "zi">>, <<"tou", "zi">>,
      <<"tou", "zi", "gong", "si">>, <<"tou", "zi", "ji", "jin">>,
      <<"feng", "xian", "tou", "zi">>, <<"feng", "tou">>, <<"zi", "ben">>,
      <<"ji", "jin">>, <<"gao", "xin", "tou">>, <<"ke", "tou">>,
      <<"chuang", "fu">>, <<"gao", "ke">>, <<"tian", "shi3">> }

ROLE_KEYWORDS ==
    [ board      |-> { <<"dong", "shi">>, <<"dong", "shi", "zhang">> },
      supervisor |-> { <<"jian", "shi">> },
      executive  |-> { <<"gao", "ji2", "guan", "li", "ren", "yuan">>,
                       <<"gao", "guan">>, <<"zong", "jing", "li">>,
                       <<"fu4", "zong">>, <<"jing", "li">>,
                       <<"zhi", "xing", "dong", "shi">> } ]

----------------------------------------------------------------------------
(* Role Tagger                                                             *)

\* flag_role without the look at the following line
RECURSIVE FlagRoleLoop_NoNextLine(_, _, _, _)
FlagRoleLoop_NoNextLine(lines, vc_name, keywords, idx) ==
    IF idx > Len(lines) THEN <<"0">>
    ELSE IF In(vc_name, lines[idx]) /\ AnyIn(keywords, lines[idx]) THEN <<"1">>
    ELSE IF In(vc_name, lines[idx])
            /\ idx > 1 /\ AnyIn(keywords, lines[idx - 1]) THEN <<"1">>
    ELSE FlagRoleLoop_NoNextLine(lines, vc_name, keywords, idx + 1)

\* the for loop of flag_role from (1-based) line idx on
RECURSIVE FlagRoleLoop(_, _, _, _)
FlagRoleLoop(lines, vc_name, keywords, idx) ==
    IF idx > Len(lines) THEN <<"0">>
    ELSE IF In(vc_name, lines[idx]) /\ AnyIn(keywords, lines[idx]) THEN <<"1">>
    ELSE IF In(vc_name, lines[idx])
            /\ idx > 1 /\ AnyIn(keywords, lines[idx - 1]) THEN <<"1">>
    ELSE IF In(vc_name, lines[idx])
            /\ idx + 1 <= Len(lines) /\ AnyIn(keywords, lines[idx + 1]) THEN <<"1">>
    ELSE FlagRoleLoop(lines, vc_name, keywords, idx + 1)

flag_role(text, vc_name, keywords) ==
    IF vc_name = <<>> THEN <<"0">>
    ELSE FlagRoleLoop(splitlines(text), vc_name, keywords, 1)

----------------------------------------------------------------------------
(* Candidate Scanner                                                       *)


Digits == {"0", "1", "2", "3", "4", "5", "6", "7", "8", "9"}

DigitVal(c) ==
    CASE c = "0" -> 0 [] c = "1" -> 1 [] c = "2" -> 2 [] c = "3" -> 3
      [] c = "4" -> 4 [] c = "5" -> 5 [] c = "6" -> 6 [] c = "7" -> 7
      [] c = "8" -> 8 [] c = "9" -> 9

\* \s of the re module, over the characters of the model
Whitespace == {" ", "TAB", "LF"}

\* the Chinese characters of the model (all lie in U+4E00..U+9FA5)
CJK ==
    { "ji", "jin", "chuang", "tou", "zi", "ben", "ye", "gong", "si", "feng",
      "xian", "gao", "xin", "ke", "fu", "tian", "shi3", "he", "huo", "dong",
      "shi", "zhang", "jian", "ji2", "guan", "li", "ren", "yuan", "zong",
      "jing", "fu4", "zhi", "xing", "chi", "gu", "piao", "dai", "ma", "zheng",
      "quan", "jian3", "cheng", "fa" }

Letters == {"A", "B", "C", "D", "X"}

\* the character class of name_pattern
NameChars == CJK \cup Letters \cup Digits \cup {"(", ")", "-", "\\"}

\* the alternatives of name_pattern, in the order the pattern tries them
NameSuffixes ==
    << <<"ji", "jin">>, <<"chuang", "tou">>, <<"zi", "ben">>,
       <<"tou", "zi", "gong", "si">>, <<"tou", "zi">>,
       <<"chuang", "ye", "tou", "zi">>, <<"he", "huo">>, <<"feng", "tou">> >>

NameMinRun == 2
NameMaxRun == 50

\* the first alternative that occurs at position p (0 when none does)
FirstSuffixAt(line, p) ==
    LET hits == { a \in 1..Len(NameSuffixes) : OccursAt(NameSuffixes[a], line, p) }
    IN  IF hits = {} THEN 0 ELSE CHOOSE a \in hits : \A b \in hits : a <= b

\* name_pattern matched at start position i: the lazy run takes the least
\* length n for which an alternative follows; None when there is none
NameMatchAt(line, i) ==
    LET ok == { n \in NameMinRun..NameMaxRun :
                  /\ i + n - 1 <= Len(line)
                  /\ \A k \in i..(i + n - 1) : line[k] \in NameChars
                  /\ FirstSuffixAt(line, i + n) # 0 }
    IN  IF ok = {} THEN None
        ELSE LET n == CHOOSE m \in ok : \A o \in ok : m <= o
                 a == FirstSuffixAt(line, i + n)
             IN  Some(Slice(line, i, i + n - 1 + Len(NameSuffixes[a])))

\* name_pattern.search(line): group(1) of the leftmost match, or None
NameSearch(line) ==
    LET starts == { i \in 1..Len(line) : NameMatchAt(line, i) # None }
    IN  IF starts = {} THEN None
        ELSE NameMatchAt(line, CHOOSE i \in starts : \A j \in starts : i <= j)

\* number of digits from position i on
RECURSIVE DigitRun(_, _)
DigitRun(line, i) ==
    IF i <= Len(line) /\ line[i] \in Digits THEN 1 + DigitRun(line, i + 1) ELSE 0

\* first position >= i that holds no whitespace
RECURSIVE SkipSpace(_, _)
SkipSpace(line, i) ==
    IF i <= Len(line) /\ line[i] \in Whitespace THEN SkipSpace(line, i + 1) ELSE i

\* value, in hundredths, of the digit string line[i..j]
RECURSIVE DigitsValue(_, _, _)
DigitsValue(line, i, j) ==
    IF i > j THEN 0 ELSE DigitsValue(line, i, j - 1) * 10 + DigitVal(line[j])

MaxIntDigits == 3
MaxFracDigits == 2

\* percent_pattern tried at start position i with nd integer digits and nf
\* fraction digits (0: no fraction): the position of the closing "%", or 0
PercentEnd(line, i, nd, nf) ==
    LET p == i + nd
        q == IF nf = 0 THEN p ELSE p + 1 + nf
        r == SkipSpace(line, q)
    IN  IF /\ nd <= DigitRun(line, i)
           /\ (nf > 0 => /\ p <= Len(line) /\ line[p] = "."
                         /\ nf <= DigitRun(line, p + 1))
           /\ r <= Len(line) /\ line[r] = "%"
        THEN r ELSE 0

\* the match of percent_pattern at start position i: greedy, so more integer
\* digits are preferred, then more fraction digits; [end |-> 0] when none
PercentMatchAt(line, i) ==
    LET opts == { o \in (1..MaxIntDigits) \X (0..MaxFracDigits) :
                    PercentEnd(line, i, o[1], o[2]) # 0 }
    IN  IF opts = {} THEN [end |-> 0, value |-> 0]
        ELSE LET o == CHOOSE x \in opts : \A y \in opts :
                          \/ x[1] > y[1]
                          \/ x[1] = y[1] /\ x[2] >= y[2]
                 nd == o[1]
                 nf == o[2]
                 whole == DigitsValue(line, i, i + nd - 1)
                 frac == IF nf = 0 THEN 0
                         ELSE IF nf = 1 THEN 10 * DigitsValue(line, i + nd + 1, i + nd + 1)
                         ELSE DigitsValue(line, i + nd + 1, i + nd + 2)
             IN  [end |-> PercentEnd(line, i, nd, nf), value |-> whole * 100 + frac]

\* percent_pattern.findall(line) from position i on, as float values in
\* hundredths: matches do not overlap
RECURSIVE PercentFindAll(_, _)
PercentFindAll(line, i) ==
    IF i > Len(line) THEN <<>>
    ELSE LET m == PercentMatchAt(line, i)
         IN  IF m.end = 0 THEN PercentFindAll(line, i + 1)
             ELSE <<m.value>> \o PercentFindAll(line, m.end + 1)

SeqRange(s) == { s[k] : k \in 1..Len(s) }

SetMax(S) == CHOOSE x \in S : \A y \in S : x >= y

\* 100.0, in hundredths
PercentCap == 10000

\* the local variable perc after lines 125-133: the largest percentage of
\* the line that does not exceed 100, or None
LinePercent(line) ==
    LET perc_candidates == { v \in SeqRange(PercentFindAll(line, 1)) : v <= PercentCap }
    IN  IF perc_candidates = {} THEN None ELSE Some(SetMax(perc_candidates))

\* the hit the loop body appends for one line, as <<name, percent>>; None
\* when the line is skipped
LineHit(line) ==
    IF ~AnyIn(VC_KEYWORDS, line) THEN None
    ELSE IF NameSearch(line) = None THEN None
    ELSE Some(<<NameSearch(line)[1],
                IF LinePercent(line) # None THEN LinePercent(line)[1] ELSE 0>>)

RECURSIVE ScanLines(_, _)
ScanLines(lines, idx) ==
    IF idx > Len(lines) THEN <<>>
    ELSE LineHit(lines[idx]) \o ScanLines(lines, idx + 1)

\* h put into a list sorted by descending percent, behind its equals
RECURSIVE InsertDesc(_, _)
InsertDesc(sorted, h) ==
    IF sorted = <<>> THEN <<h>>
    ELSE IF Head(sorted)[2] >= h[2] THEN <<Head(sorted)>> \o InsertDesc(Tail(sorted), h)
    ELSE <<h>> \o sorted

\* sorted(hits, key=lambda x: x[1], reverse=True): stable
RECURSIVE SortedByPercentDesc(_)
SortedByPercentDesc(hits) ==
    IF hits = <<>> THEN <<>>
    ELSE InsertDesc(SortedByPercentDesc(SubSeq(hits, 1, Len(hits) - 1)), hits[Len(hits)])

extract_vc_candidates(text) == SortedByPercentDesc(ScanLines(splitlines(text), 1))

pick_best_candidate(cands) ==
    IF cands = <<>> THEN <<<<>>, 0>> ELSE cands[1]

----------------------------------------------------------------------------
(* Number <-> str conversions.  A float is held in hundredths.             *)

DigitChar(d) ==
    CASE d = 0 -> "0" [] d = 1 -> "1" [] d = 2 -> "2" [] d = 3 -> "3"
      [] d = 4 -> "4" [] d = 5 -> "5" [] d = 6 -> "6" [] d = 7 -> "7"
      [] d = 8 -> "8" [] d = 9 -> "9"

\* str(n) for an int n >= 0
RECURSIVE NatStr(_)
NatStr(n) == IF n < 10 THEN <<DigitChar(n)>> ELSE NatStr(n \div 10) \o <<DigitChar(n % 10)>>

IntStr(n) == IF n < 0 THEN <<"-">> \o NatStr(-n) ELSE NatStr(n)

Abs(h) == IF h < 0 THEN -h ELSE h

\* str(x) for a float x of at most two decimals: the shortest repr, which
\* keeps at least one decimal ("12.5", "0.0", "12.05")
FloatStr(h) ==
    LET a == Abs(h)
        frac == IF a % 100 = 0 THEN <<"0">>
                ELSE IF a % 10 = 0 THEN <<DigitChar((a % 100) \div 10)>>
                ELSE <<DigitChar((a % 100) \div 10), DigitChar(a % 10)>>
    IN  (IF h < 0 THEN <<"-">> ELSE <<>>) \o NatStr(a \div 100) \o <<".">> \o frac

\* f"{pct:.2f}%"
FormatPercent(h) ==
    LET a == Abs(h)
    IN  (IF h < 0 THEN <<"-">> ELSE <<>>) \o NatStr(a \div 100) \o <<".">>
        \o <<DigitChar((a % 100) \div 10), DigitChar(a % 10)>> \o <<"%">>

\* s.strip(): whitespace removed at both ends
RECURSIVE LStrip(_)
LStrip(s) == IF s # <<>> /\ Head(s) \in Whitespace THEN LStrip(Tail(s)) ELSE s
RECURSIVE RStrip(_)
RStrip(s) ==
    IF s # <<>> /\ s[Len(s)] \in Whitespace THEN RStrip(SubSeq(s, 1, Len(s) - 1)) ELSE s
Strip(s) == RStrip(LStrip(s))

\* s.replace(c, "") for a one-character c
Remove(s, c) == SelectSeq(s, LAMBDA x : x # c)

\* float(s) for an unsigned or signed decimal numeral with at most
\* MaxFracDigits decimals, in hundredths; None stands for ValueError.
\* (Exponents, inf, nan, underscores and longer fractions are outside the
\* strings of this model.)
ParseFloat(s) ==
    LET body == IF s # <<>> /\ s[1] \in {"-", "+"} THEN Tail(s) ELSE s
        nd == DigitRun(body, 1)
        dot == nd + 1 <= Len(body) /\ body[nd + 1] = "."
        nf == IF dot THEN DigitRun(body, nd + 2) ELSE 0
        used == nd + (IF dot THEN 1 + nf ELSE 0)
        whole == DigitsValue(body, 1, nd)
        frac == IF nf = 0 THEN 0
                ELSE IF nf = 1 THEN 10 * DigitsValue(body, nd + 2, nd + 2)
                ELSE DigitsValue(body, nd + 2, nd + 3)
        mag == whole * 100 + frac
    IN  IF used = Len(body) /\ nd + nf >= 1 /\ nf <= MaxFracDigits
        THEN Some(IF s[1] = "-" THEN -mag ELSE mag)
        ELSE None

Min(a, b) == IF a < b THEN a ELSE b
Max(a, b) == IF a > b THEN a ELSE b

\* val is None or Some(str); fallback is a float in hundredths
normalize_percent_str(val, fallback) ==
    LET cleaned == Strip(Remove(val[1], "%"))
        pct == IF val = None \/ val = Some(<<>>) THEN fallback
               ELSE IF ParseFloat(cleaned) = None THEN fallback
               ELSE ParseFloat(cleaned)[1]
    IN  FormatPercent(Max(0, Min(PercentCap, pct)))

----------------------------------------------------------------------------
(* Rule Engine                                                             *)

CodeDigits == 6
ShortNameMin == 2
ShortNameMax == 12

Least(S) == CHOOSE x \in S : \A y \in S : x <= y

\* position of the first c in s, 0 when there is none
IndexOf(s, c) ==
    LET at == { i \in 1..Len(s) : s[i] = c } IN IF at = {} THEN 0 ELSE Least(at)

\* s.split(c, 1)[0]
BeforeFirst(s, c) == IF IndexOf(s, c) = 0 THEN s ELSE Slice(s, 1, IndexOf(s, c) - 1)

\* s.split(c, 1)[1], for an s that holds c
AfterFirst(s, c) == Slice(s, IndexOf(s, c) + 1, Len(s))

\* re.sub(r"-\d+.*", "", s) for an s of one line
CutDashDigits(s) ==
    LET at == { i \in 1..Len(s) : s[i] = "-" /\ DigitRun(s, i + 1) >= 1 }
    IN  IF at = {} THEN s ELSE Slice(s, 1, Least(at) - 1)

\* s.strip(" _-")
RECURSIVE StripChars(_, _)
StripChars(s, cs) ==
    IF s # <<>> /\ Head(s) \in cs THEN StripChars(Tail(s), cs)
    ELSE IF s # <<>> /\ s[Len(s)] \in cs THEN StripChars(SubSeq(s, 1, Len(s) - 1), cs)
    ELSE s

\* group(1) of re.search(r"(\d{6})", s), or None
SixDigits(s) ==
    LET at == { i \in 1..Len(s) : DigitRun(s, i) >= CodeDigits }
    IN  IF at = {} THEN None ELSE Some(Slice(s, Least(at), Least(at) + CodeDigits - 1))

Colons == {":", "FWCOLON"}

CodeLabels == { <<"gu", "piao", "dai", "ma">>, <<"zheng", "quan", "dai", "ma">> }

NameLabels == { <<"gong", "si", "jian3", "cheng">>, <<"fa", "xing", "ren">> }

\* the characters the company-name class excludes
NameStop == Whitespace \cup {"(", ")", "FWSEMI", ";", "FWCOMMA", "DUN"}

\* the code the labelled pattern captures when a label ends before position p
CodeAfterLabel(text, p) ==
    LET q == IF p <= Len(text) /\ text[p] \in Colons THEN p + 1 ELSE p
        r == SkipSpace(text, q)
    IN  IF DigitRun(text, r) >= CodeDigits THEN Some(Slice(text, r, r + CodeDigits - 1))
        ELSE None

\* group(1) of the labelled stock-code search in the text, or None
CodeFromText(text) ==
    LET at == { i \in 1..Len(text) :
                  \E l \in CodeLabels : OccursAt(l, text, i)
                                        /\ CodeAfterLabel(text, i + Len(l)) # None }
    IN  IF at = {} THEN None
        ELSE LET i == Least(at)
                 l == CHOOSE k \in CodeLabels : OccursAt(k, text, i)
             IN  CodeAfterLabel(text, i + Len(l))

\* number of characters from position i on that the name class accepts
RECURSIVE NameRun(_, _)
NameRun(text, i) ==
    IF i <= Len(text) /\ text[i] \notin NameStop THEN 1 + NameRun(text, i + 1) ELSE 0

\* the name the labelled pattern captures when a label ends before position
\* p: the optional colon is taken when that leads to a match, and left to
\* the name class (which accepts it) otherwise
NameAfterLabel(text, p) ==
    LET q == IF p <= Len(text) /\ text[p] \in Colons THEN p + 1 ELSE p
        r == SkipSpace(text, q)
        r0 == SkipSpace(text, p)
    IN  IF NameRun(text, r) >= ShortNameMin
        THEN Some(Slice(text, r, r + Min(NameRun(text, r), ShortNameMax) - 1))
        ELSE IF NameRun(text, r0) >= ShortNameMin
        THEN Some(Slice(text, r0, r0 + Min(NameRun(text, r0), ShortNameMax) - 1))
        ELSE None

\* group(1) of the labelled company-name search in the text, or None
NameFromText(text) ==
    LET at == { i \in 1..Len(text) :
                  \E l \in NameLabels : OccursAt(l, text, i)
                                        /\ NameAfterLabel(text, i + Len(l)) # None }
    IN  IF at = {} THEN None
        ELSE LET i == Least(at)
                 l == CHOOSE k \in NameLabels : OccursAt(k, text, i)
             IN  NameAfterLabel(text, i + Len(l))

\* the company short name read off the filename, "" when there is none
NameFromFilename(filename) ==
    IF IndexOf(filename, "_") = 0 THEN <<>>
    ELSE LET t1 == AfterFirst(filename, "_")
             t2 == BeforeFirst(t1, ":")
             t3 == BeforeFirst(t2, "FWCOLON")
             t4 == CutDashDigits(t3)
             tail == StripChars(t4, {" ", "_", "-"})
         IN  IF ShortNameMin <= Len(tail) /\ Len(tail) <= ShortNameMax THEN tail
             ELSE <<>>

\* returns <<code, name>>
extract_code_and_name(filename, text) ==
    LET code == IF SixDigits(filename) # None THEN SixDigits(filename)[1]
                ELSE IF CodeFromText(text) # None THEN CodeFromText(text)[1]
                ELSE <<>>
        name == IF NameFromFilename(filename) # <<>> THEN NameFromFilename(filename)
                ELSE IF NameFromText(text) # None THEN NameFromText(text)[1]
                ELSE <<>>
    IN  <<code, name>>

\* the ten columns: the Chinese labels of the source, under the names the
\* data model gives them
FIELDNAMES ==
    << "stockCode", "companyName", "vcName", "vcPercent",
       "hasBoardAppointee", "hasSupervisorAppointee", "hasExecutiveAppointee",
       "boardAppointeeType", "supervisorAppointeeType", "executiveAppointeeType" >>

\* lines 185-202: the record for the code and name cn and the chosen
\* candidate best
RuleRecord(text, cn, best) ==
    [ stockCode               |-> cn[1],
      companyName             |-> cn[2],
      vcName                  |-> best[1],
      vcPercent               |-> IF best[1] # <<>>
                                  THEN normalize_percent_str(Some(FloatStr(best[2])), 0)
                                  ELSE <<"0", "%">>,
      hasBoardAppointee       |-> flag_role(text, best[1], ROLE_KEYWORDS.board),
      hasSupervisorAppointee  |-> flag_role(text, best[1], ROLE_KEYWORDS.supervisor),
      hasExecutiveAppointee   |-> flag_role(text, best[1], ROLE_KEYWORDS.executive),
      boardAppointeeType      |-> <<>>,
      supervisorAppointeeType |-> <<>>,
      executiveAppointeeType  |-> <<>> ]

\* lines 183-202 once the candidates are known.  (A one-element set binds
\* an intermediate result once it is computed.)
RuleResultFor(text, cn, cands) ==
    CHOOSE r \in { <<RuleRecord(text, cn, best), cands>> :
                     best \in { pick_best_candidate(cands) } } : TRUE

\* returns <<record, candidates>>
rule_based_result(text, filename) ==
    CHOOSE r \in { RuleResultFor(text, cn, cands) :
                     cn \in { extract_code_and_name(filename, text) },
                     cands \in { extract_vc_candidates(text) } } : TRUE

----------------------------------------------------------------------------
(* JSON values as json.loads returns them.  One record shape for all:      *)
(* t is the Python type, s the characters of a str, n the number (a float  *)
(* in hundredths, a list's length, 1/0 for True/False), d the items of a   *)
(* dict (a function from its keys to values of this shape).                *)

JStr(s)   == [t |-> "str",   s |-> s,    n |-> 0, d |-> <<>>]
JInt(n)   == [t |-> "int",   s |-> <<>>, n |-> n, d |-> <<>>]
JFloat(h) == [t |-> "float", s |-> <<>>, n |-> h, d |-> <<>>]
JBool(b)  == [t |-> "bool",  s |-> <<>>, n |-> IF b THEN 1 ELSE 0, d |-> <<>>]
JNull     == [t |-> "NoneType", s |-> <<>>, n |-> 0, d |-> <<>>]
JList(n)  == [t |-> "list",  s |-> <<>>, n |-> n, d |-> <<>>]
JDict(d)  == [t |-> "dict",  s |-> <<>>, n |-> 0, d |-> d]

\* bool(v)
Truthy(v) ==
    CASE v.t = "str"      -> v.s # <<>>
      [] v.t = "dict"     -> DOMAIN v.d # {}
      [] v.t = "NoneType" -> FALSE
      [] OTHER            -> v.n # 0

\* str(v) for the scalar values of the model
PyStr(v) ==
    CASE v.t = "str"      -> v.s
      [] v.t = "int"      -> IntStr(v.n)
      [] v.t = "float"    -> FloatStr(v.n)
      [] v.t = "bool"     -> IF v.n = 1 THEN <<"T", "r", "u", "e">>
                             ELSE <<"F", "a", "l", "s", "e">>
      [] v.t = "NoneType" -> <<"N", "o", "n", "e">>
      [] OTHER            -> <<"[", "]">>

----------------------------------------------------------------------------
(* Merge Resolver                                                          *)

NameKeys == {"stockCode", "companyName", "vcName"}
FlagKeys == {"hasBoardAppointee", "hasSupervisorAppointee", "hasExecutiveAppointee"}
TypeKeys == {"boardAppointeeType", "supervisorAppointeeType", "executiveAppointeeType"}

\* llm.get(key, "")
Get(llm, key) == IF key \in DOMAIN llm.d THEN llm.d[key] ELSE JStr(<<>>)

\* lines 283-286 with the test on the untrimmed value
MergedName_UntrimmedTest(rule, llm, key) ==
    LET val == Get(llm, key)
    IN  IF val.t = "str" /\ val.s # <<>> THEN Strip(val.s) ELSE rule[key]

\* lines 283-286 for one key
MergedName(rule, llm, key) ==
    LET val == Get(llm, key)
    IN  IF val.t = "str" /\ Strip(val.s) # <<>> THEN Strip(val.s) ELSE rule[key]

\* lines 289-291
MergedPercent(rule, llm) ==
    LET llm_pct == Get(llm, "vcPercent")
    IN  IF llm_pct.t = "str" /\ Strip(llm_pct.s) # <<>>
        THEN normalize_percent_str(Some(llm_pct.s), 0)
        ELSE rule.vcPercent

\* lines 294-297 without the membership test: any non-empty text is taken
MergedFlag_AnyText(rule, llm, key) ==
    LET val == Strip(PyStr(Get(llm, key)))
    IN  IF val # <<>> THEN val ELSE rule[key]

\* lines 294-297 for one key
MergedFlag(rule, llm, key) ==
    LET val == Strip(PyStr(Get(llm, key)))
    IN  IF val \in {<<"0">>, <<"1">>} THEN val ELSE rule[key]

\* lines 300-303 treated like the name fields: an empty value keeps the rule's
MergedType_KeepRuleWhenEmpty(rule, llm, key) ==
    LET val == Get(llm, key)
    IN  IF val.t = "str" /\ Strip(val.s) # <<>> THEN Strip(val.s) ELSE rule[key]

\* lines 300-303 for one key
MergedType(rule, llm, key) ==
    LET val == Get(llm, key)
    IN  IF val.t = "str" THEN Strip(val.s) ELSE rule[key]

\* the record lines 280-305 build from a dict llm
MergedRecord(rule, llm) ==
    [ key \in DOMAIN rule |->
        CASE key \in NameKeys    -> MergedName(rule, llm, key)
          [] key = "vcPercent"   -> MergedPercent(rule, llm)
          [] key \in FlagKeys    -> MergedFlag(rule, llm, key)
          [] key \in TypeKeys    -> MergedType(rule, llm, key) ]

\* What a call ends with: exc is "" and value the returned record, or exc
\* names the exception raised (value is then unused).
Returns(record) == [exc |-> "", value |-> record]
Raises(e, rule) == [exc |-> e, value |-> rule]

\* merge_results without the early return of lines 277-278: None is merged
\* as an empty record
merge_results_NoneAsEmpty(rule, llm) ==
    IF llm.t = "NoneType" THEN Returns(MergedRecord(rule, JDict(<<>>)))
    ELSE IF ~Truthy(llm) THEN Returns(rule)
    ELSE IF llm.t # "dict" THEN Raises("AttributeError", rule)
    ELSE Returns(MergedRecord(rule, llm))

\* llm is the value ask_llm returned: JNull or whatever json.loads gave.
\* A false value returns the rule record; a true value that is no dict has
\* no .get and raises AttributeError at line 284.
merge_results(rule, llm) ==
    IF ~Truthy(llm) THEN Returns(rule)
    ELSE IF llm.t # "dict" THEN Raises("AttributeError", rule)
    ELSE Returns(MergedRecord(rule, llm))

----------------------------------------------------------------------------
(* LLM Refiner: the reply.  The content of a reply is a sequence of        *)
(* segments: a literal (the Markdown fence of three backticks, written    *)
(* "FENCE", the word after it, white space, prose) or the text of one JSON *)
(* document, held as the value json.loads gives for it.                    *)

Lit(c) == [k |-> "lit", c |-> c, v |-> JNull]
Doc(v) == [k |-> "json", c |-> "", v |-> v]

Fence == <<Lit("FENCE")>>
FenceJson == <<Lit("FENCE"), Lit("json")>>

IsSpace(seg) == seg.k = "lit" /\ seg.c \in Whitespace

RECURSIVE StripSegs(_)
StripSegs(s) ==
    IF s # <<>> /\ IsSpace(Head(s)) THEN StripSegs(Tail(s))
    ELSE IF s # <<>> /\ IsSpace(s[Len(s)]) THEN StripSegs(SubSeq(s, 1, Len(s) - 1))
    ELSE s

EndsWith(s, p) == Len(p) <= Len(s) /\ Slice(s, Len(s) - Len(p) + 1, Len(s)) = p

\* lines 259-260 and 263-264
DropClosingFence(s) ==
    IF EndsWith(s, Fence) THEN StripSegs(Slice(s, 1, Len(s) - Len(Fence))) ELSE s

\* lines 255-264: cleaned
Cleaned(json_str) ==
    LET cleaned == StripSegs(json_str)
    IN  IF StartsWith(cleaned, FenceJson)
        THEN DropClosingFence(StripSegs(Slice(cleaned, Len(FenceJson) + 1, Len(cleaned))))
        ELSE IF StartsWith(cleaned, Fence)
        THEN DropClosingFence(StripSegs(Slice(cleaned, Len(Fence) + 1, Len(cleaned))))
        ELSE cleaned

\* json.loads(cleaned): Some(value), or None for JSONDecodeError
JsonLoads(cleaned) ==
    IF Len(cleaned) = 1 /\ cleaned[1].k = "json" THEN Some(cleaned[1].v) ELSE None

\* lines 254-273: what ask_llm returns for a reply whose content is msg
\* (None or Some(segments))
ParsedReply(msg) ==
    LET json_str == IF msg = None THEN <<>> ELSE msg[1]
        parsed == JsonLoads(Cleaned(json_str))
    IN  IF parsed = None THEN JNull ELSE parsed[1]

----------------------------------------------------------------------------
(* Batch Driver: files and rows                                            *)

\* A directory entry: its name, whether pdfplumber can open it, and what
\* page.extract_text() gives for each page (None or Some(text)).
Entry(name, readable, pages) == [name |-> name, readable |-> readable, pages |-> pages]

\* extract_pdf: the page texts joined without a separator, None counted as ""
RECURSIVE extract_pdf(_)
extract_pdf(pages) ==
    IF pages = <<>> THEN <<>>
    ELSE (IF Head(pages) = None THEN <<>> ELSE Head(pages)[1]) \o extract_pdf(Tail(pages))

PdfSuffix == <<".", "p", "d", "f">>

\* [f for f in os.listdir(INPUT_DIR) if f.endswith(".pdf")]
PdfFiles(entries) == SelectSeq(entries, LAMBDA e : EndsWith(e.name, PdfSuffix))

\* a row as csv.DictWriter lays it out: the cells in FIELDNAMES order
Row(record) == [j \in 1..Len(FIELDNAMES) |-> record[FIELDNAMES[j]]]

\* writer.writeheader(): each cell is the column's label
HeaderRow == [j \in 1..Len(FIELDNAMES) |-> <<FIELDNAMES[j]>>]

NoRecord == [key \in SeqRange(FIELDNAMES) |-> <<>>]

----------------------------------------------------------------------------
(* Inputs of a batch run                                                   *)

\* "002009_AB.pdf": one VC line with a percentage, a board mention on the
\* next page, whose text follows the first page's without a line break
DocVc ==
    Entry(<<"0", "0", "2", "0", "0", "9", "_", "A", "B", ".", "p", "d", "f">>, TRUE,
          << Some(<<"A", "B", "ji", "jin", " ", "1", "2", ".", "5", "%", "LF">>),
             None,
             Some(<<"dong", "shi">>) >>)

\* "X.pdf": no VC keyword anywhere; code and name come from the text
DocNoVc ==
    Entry(<<"X", ".", "p", "d", "f">>, TRUE,
          << Some(<<"zheng", "quan", "dai", "ma", "FWCOLON", "6", "0", "0", "0", "0", "1",
                    "LF", "fa", "xing", "ren", ":", " ", "C", "D", "LF",
                    "chi", "gu", " ", "3", "%">>) >>)

\* "C.pdf": a file pdfplumber cannot open
DocBroken == Entry(<<"C", ".", "p", "d", "f">>, FALSE, <<>>)

\* "A.txt": not a PDF
NotPdf == Entry(<<"A", ".", "t", "x", "t">>, TRUE, <<>>)

DirEntries == {DocVc, DocNoVc, DocBroken, NotPdf}

MaxFiles == 3

\* the directory listings: up to MaxFiles distinct entries in any order
Listings ==
    { l \in UNION { [1..n -> DirEntries] : n \in 0..MaxFiles } :
        \A a, b \in 1..Len(l) : a # b => l[a] # l[b] }

\* a well-formed answer
GoodAnswer ==
    JDict(("vcName" :> JStr(<<"C", "D", "zi", "ben">>))
          @@ ("vcPercent" :> JStr(<<"8", "%">>))
          @@ ("hasBoardAppointee" :> JStr(<<"1">>))
          @@ ("boardAppointeeType" :> JStr(<<"X">>)))

\* an answer that names no VC and yet claims a board appointee
NoVcAnswer ==
    JDict(("vcName" :> JStr(<<>>)) @@ ("hasBoardAppointee" :> JStr(<<"1">>)))

ReplyContents ==
    { None,
      Some(<<>>),
      Some(<<Doc(GoodAnswer)>>),
      Some(<<Doc(NoVcAnswer)>>),
      Some(<<Lit("FENCE"), Lit("json"), Lit("LF"), Doc(GoodAnswer), Lit("LF"), Lit("FENCE")>>),
      Some(<<Lit("FENCE"), Lit("LF"), Doc(GoodAnswer), Lit("LF"), Lit("FENCE"), Lit(" ")>>),
      Some(<<Lit("FENCE"), Lit("JSON"), Lit("LF"), Doc(GoodAnswer), Lit("LF"), Lit("FENCE")>>),
      Some(<<Lit("Sure"), Lit(" "), Doc(GoodAnswer)>>),
      Some(<<Doc(JDict(<<>>))>>),
      Some(<<Doc(JNull)>>),
      Some(<<Doc(JList(0))>>),
      Some(<<Doc(JList(1))>>),
      Some(<<Doc(JStr(<<"X">>))>>) }

----------------------------------------------------------------------------
(* Batch Driver: collect_results                                           *)

\* lines 308-324 when OUTPUT_CSV is absent or can be truncated
Start ==
    /\ pc = "start" /\ out_state # "locked"
    /\ files' = PdfFiles(listing)
    /\ disk' = <<>>
    /\ pc' = "loop"
    /\ UNCHANGED <<listing, client, out_state, done, localVars, results, csv_file,
                   buffer, exc, fnVars>>

\* lines 317-324 when truncating raises PermissionError: sys.exit(1)
StartLocked ==
    /\ pc = "start" /\ out_state = "locked"
    /\ files' = PdfFiles(listing)
    /\ pc' = "exit"
    /\ exc' = "SystemExit"
    /\ UNCHANGED <<worldVars, done, localVars, results, csv_file, buffer, fnVars>>

\* lines 330-334: the next file is read and the rule engine run on its text
ReadFile ==
    /\ pc = "loop" /\ done < Len(files) /\ files[done + 1].readable
    /\ \E text \in { extract_pdf(files[done + 1].pages) } :
         \E rb \in { rule_based_result(text, files[done + 1].name) } :
           /\ pdf_text' = text
           /\ rule_guess' = rb[1]
           /\ candidates' = rb[2]
    /\ pc' = "ask"
    /\ UNCHANGED <<worldVars, files, done, content, llm_result, merged, results,
                   csv_file, buffer, exc, fnVars>>

\* line 332 when pdfplumber cannot open the file: the exception leaves the loop
ReadFileFails ==
    /\ pc = "loop" /\ done < Len(files) /\ ~files[done + 1].readable
    /\ exc' = "PDFSyntaxError"
    /\ pc' = "finally"
    /\ UNCHANGED <<worldVars, files, done, localVars, results, csv_file, buffer, fnVars>>

\* lines 242-244: no client
AskLLMSkipped ==
    /\ pc = "ask" /\ ~client
    /\ content' = None
    /\ llm_result' = JNull
    /\ pc' = "merge"
    /\ UNCHANGED <<worldVars, files, done, pdf_text, rule_guess, candidates, merged,
                   results, csv_file, buffer, exc, fnVars>>

\* lines 246-273: the model replies with some content
AskLLMReply ==
    /\ pc = "ask" /\ client
    /\ \E msg \in ReplyContents :
         /\ content' = msg
         /\ llm_result' = ParsedReply(msg)
    /\ pc' = "merge"
    /\ UNCHANGED <<worldVars, files, done, pdf_text, rule_guess, candidates, merged,
                   results, csv_file, buffer, exc, fnVars>>

\* lines 248-252 when the chat-completion call raises: nothing in ask_llm
\* or collect_results catches it
AskLLMTransportError ==
    /\ pc = "ask" /\ client
    /\ exc' = "APIConnectionError"
    /\ pc' = "finally"
    /\ UNCHANGED <<worldVars, files, done, localVars, results, csv_file, buffer, fnVars>>

\* lines 336-338
Merge ==
    /\ pc = "merge"
    /\ merge_results(rule_guess, llm_result).exc = ""
    /\ merged' = merge_results(rule_guess, llm_result).value
    /\ results' = Append(results, merge_results(rule_guess, llm_result).value)
    /\ pc' = "write"
    /\ UNCHANGED <<worldVars, files, done, pdf_text, rule_guess, candidates, content,
                   llm_result, csv_file, buffer, exc, fnVars>>

\* line 336 when merge_results raises
MergeRaises ==
    /\ pc = "merge"
    /\ merge_results(rule_guess, llm_result).exc # ""
    /\ exc' = merge_results(rule_guess, llm_result).exc
    /\ pc' = "finally"
    /\ UNCHANGED <<worldVars, files, done, localVars, results, csv_file, buffer, fnVars>>

\* lines 340-347 without the flush of line 347
WriteRow_NoFlush ==
    /\ pc = "write"
    /\ csv_file' = "open"
    /\ disk' = IF csv_file = "None" THEN <<>> ELSE disk
    /\ buffer' = (IF csv_file = "None" THEN <<HeaderRow>> ELSE buffer) \o <<Row(merged)>>
    /\ done' = done + 1
    /\ pc' = "loop"
    /\ UNCHANGED <<listing, client, out_state, files, localVars, results, exc, fnVars>>

\* lines 340-350: the file is opened (truncating it) and the header written
\* before the first row; the row is written and the file flushed
WriteRow ==
    /\ pc = "write"
    /\ csv_file' = "open"
    /\ disk' = (IF csv_file = "None" THEN <<HeaderRow>> ELSE disk \o buffer)
                \o <<Row(merged)>>
    /\ buffer' = <<>>
    /\ done' = done + 1
    /\ pc' = "loop"
    /\ UNCHANGED <<listing, client, out_state, files, localVars, results, exc, fnVars>>

\* line 330: the loop is exhausted
LoopEnds ==
    /\ pc = "loop" /\ done = Len(files)
    /\ pc' = "finally"
    /\ UNCHANGED <<worldVars, files, done, localVars, results, csv_file, buffer, exc,
                   fnVars>>

\* lines 351-355: close() writes what is buffered; then the function
\* returns results or the exception goes on
Finally ==
    /\ pc = "finally"
    /\ csv_file' = IF csv_file = "open" THEN "closed" ELSE csv_file
    /\ disk' = IF csv_file = "open" THEN disk \o buffer ELSE disk
    /\ buffer' = <<>>
    /\ pc' = IF exc = "" THEN "returned" ELSE "raised"
    /\ UNCHANGED <<listing, client, out_state, files, done, localVars, results, exc,
                   fnVars>>

----------------------------------------------------------------------------
(* The batch run                                                           *)

StaleRows == <<HeaderRow, Row(NoRecord)>>

Init ==
    /\ listing \in Listings
    /\ client \in BOOLEAN
    /\ out_state \in {"absent", "present", "locked"}
    /\ disk = IF out_state = "absent" THEN <<>> ELSE StaleRows
    /\ pc = "start"
    /\ files = <<>>
    /\ done = 0
    /\ pdf_text = <<>>
    /\ rule_guess = NoRecord
    /\ candidates = <<>>
    /\ content = None
    /\ llm_result = JNull
    /\ merged = NoRecord
    /\ results = <<>>
    /\ csv_file = "None"
    /\ buffer = <<>>
    /\ exc = ""
    /\ fn = "" /\ fn_args = <<>> /\ fn_ret = None

Next ==
    \/ Start \/ StartLocked
    \/ ReadFile \/ ReadFileFails
    \/ AskLLMSkipped \/ AskLLMReply \/ AskLLMTransportError
    \/ Merge \/ MergeRaises
    \/ WriteRow
    \/ LoopEnds \/ Finally

Spec == Init /\ [][Next]_vars

\* the batch variables while a function is applied on its own
BatchIdle ==
    /\ listing = <<>> /\ client = FALSE /\ out_state = "absent" /\ disk = <<>>
    /\ pc = "idle" /\ files = <<>> /\ done = 0
    /\ pdf_text = <<>> /\ rule_guess = NoRecord /\ candidates = <<>>
    /\ content = None /\ llm_result = JNull /\ merged = NoRecord
    /\ results = <<>> /\ csv_file = "None" /\ buffer = <<>> /\ exc = ""

----------------------------------------------------------------------------
(* Inputs: texts are up to MaxLines sample lines joined by LF               *)

MaxLines == 3

SampleLines ==
    { <<>>,
      <<"A", "B", "ji", "jin">>,
      <<"A", "B", "ji", "jin", " ", "dong", "shi">>,
      <<"dong", "shi">>,
      <<"jian", "shi">>,
      <<"zong", "jing", "li">>,
      <<"C", "D", "zi", "ben">>,
      <<"chi", "gu">> }

RECURSIVE Join(_)
Join(ls) ==
    IF ls = <<>> THEN <<>>
    ELSE IF Len(ls) = 1 THEN ls[1]
    ELSE ls[1] \o <<"LF">> \o Join(Tail(ls))

LineSeqs == UNION { [1..n -> SampleLines] : n \in 0..MaxLines }

Texts == { Join(ls) : ls \in LineSeqs }

SampleNames ==
    { <<>>, <<"A", "B", "ji", "jin">>, <<"C", "D", "zi", "ben">>, <<"ji", "jin">> }

Roles == {"board", "supervisor", "executive"}

----------------------------------------------------------------------------
(* Role Tagger applied to every bounded input                              *)

InitRole ==
    /\ BatchIdle
    /\ fn = "flag_role"
    /\ fn_args \in [text : Texts, vc_name : SampleNames, role : Roles]
    /\ fn_ret = None

CallFlagRole ==
    /\ fn = "flag_role" /\ fn_ret = None
    /\ fn_ret' = Some(flag_role(fn_args.text, fn_args.vc_name,
                                ROLE_KEYWORDS[fn_args.role]))
    /\ UNCHANGED <<fn, fn_args, batchVars>>

SpecRole == InitRole /\ [][CallFlagRole]_vars

----------------------------------------------------------------------------
(* Candidate Scanner applied to every bounded input                        *)

ScanLinesSample ==
    { <<"A", "B", "ji", "jin">>,
      <<"A", "B", "ji", "jin", " ", "0", "%">>,
      <<"C", "D", "zi", "ben", " ", "0", "%">>,
      <<"C", "D", "zi", "ben", " ", "1", "2", ".", "5", "0", " ", "%">>,
      <<"X", "X", "tou", "zi", "gong", "si", "5", "%", " ", "1", "5", "0", "%">>,
      <<"X", "X", "he", "huo", " ", "8", "%">>,
      <<"tian", "shi3", " ", "9", "%">>,
      <<"chi", "gu", " ", "3", "%">> }

ScanTexts == { Join(ls) : ls \in UNION { [1..n -> ScanLinesSample] : n \in 0..MaxLines } }

InitScan ==
    /\ BatchIdle
    /\ fn = "extract_vc_candidates"
    /\ fn_args \in [text : ScanTexts]
    /\ fn_ret = None

CallExtractVcCandidates ==
    /\ fn = "extract_vc_candidates" /\ fn_ret = None
    /\ fn_ret' = Some(extract_vc_candidates(fn_args.text))
    /\ UNCHANGED <<fn, fn_args, batchVars>>

SpecScan == InitScan /\ [][CallExtractVcCandidates]_vars


----------------------------------------------------------------------------
(* Merge Resolver applied to every bounded input                           *)

\* a rule record with the given values in its four groups of fields
SampleRule(names, pct, flag, type) ==
    [ stockCode               |-> names[1],
      companyName             |-> names[2],
      vcName                  |-> names[3],
      vcPercent               |-> pct,
      hasBoardAppointee       |-> flag,
      hasSupervisorAppointee  |-> flag,
      hasExecutiveAppointee   |-> IF flag = <<"0">> THEN <<"1">> ELSE <<"0">>,
      boardAppointeeType      |-> type,
      supervisorAppointeeType |-> type,
      executiveAppointeeType  |-> <<>> ]

RuleRecords ==
    { SampleRule(n, p, f, t) :
        n \in { <<<<>>, <<>>, <<>>>>,
                <<<<"6", "0", "0", "0", "0", "1">>, <<"A", "B">>, <<"A", "B", "ji", "jin">>>> },
        p \in { <<"0", "%">>, <<"1", "2", ".", "5", "0", "%">> },
        f \in { <<"0">>, <<"1">> },
        t \in { <<>>, <<"X">> } }

\* the values an LLM record may hold under a key
ValuesFor(key) ==
    CASE key \in NameKeys ->
           { JStr(<<>>), JStr(<<" ">>), JStr(<<" ", "X", " ">>), JStr(<<"C", "D">>),
             JNull, JInt(1) }
      [] key = "vcPercent" ->
           { JStr(<<>>), JStr(<<" ", "8", " ", "%">>), JStr(<<"X">>), JNull, JInt(8) }
      [] key \in FlagKeys ->
           { JStr(<<"0">>), JStr(<<"1">>), JStr(<<" ", "1", " ">>), JStr(<<"2">>),
             JStr(<<>>), JInt(0), JInt(1), JInt(2), JFloat(100), JBool(TRUE), JNull }
      [] key \in TypeKeys ->
           { JStr(<<>>), JStr(<<" ">>), JStr(<<" ", "X", " ">>), JStr(<<"C">>),
             JNull, JInt(1) }

MaxLLMKeys == 2

RECURSIVE DictsOver(_)
DictsOver(keys) ==
    IF keys = {} THEN { <<>> }
    ELSE LET k == CHOOSE x \in keys : TRUE
         IN  { (k :> v) @@ d : v \in ValuesFor(k), d \in DictsOver(keys \ {k}) }

LLMDicts ==
    UNION { DictsOver(keys) :
              keys \in { K \in SUBSET SeqRange(FIELDNAMES) : Cardinality(K) <= MaxLLMKeys } }

\* replies that parse to something other than a dict
NonDicts == { JList(0), JList(1), JInt(0), JInt(5), JStr(<<>>), JStr(<<"X">>),
              JBool(TRUE), JBool(FALSE) }

LLMResults == {JNull} \cup { JDict(d) : d \in LLMDicts } \cup NonDicts

InitMerge ==
    /\ BatchIdle
    /\ fn = "merge_results"
    /\ fn_args \in [rule : RuleRecords, llm : LLMResults]
    /\ fn_ret = None

CallMergeResults ==
    /\ fn = "merge_results" /\ fn_ret = None
    /\ fn_ret' = Some(merge_results(fn_args.rule, fn_args.llm))
    /\ UNCHANGED <<fn, fn_args, batchVars>>

SpecMerge == InitMerge /\ [][CallMergeResults]_vars


----------------------------------------------------------------------------
(* Properties of the Merge Resolver (under SpecMerge)                      *)

Returned(f) == fn = f /\ fn_ret # None

IsBlank(s) == \A i \in 1..Len(s) : s[i] \in Whitespace

\* s without its leading and trailing white space, said by positions
Trimmed(s) ==
    IF IsBlank(s) THEN <<>>
    ELSE LET solid == { i \in 1..Len(s) : s[i] \notin Whitespace }
         IN  Slice(s, Least(solid), SetMax(solid))

\* C1: merging with no LLM record (None) returns the rule record, each of
\* the ten fields unchanged, for every rule record.
C1_NoneReturnsRule ==
    Returned("merge_results") /\ fn_args.llm = JNull =>
        /\ fn_ret[1].exc = ""
        /\ \A key \in SeqRange(FIELDNAMES) : fn_ret[1].value[key] = fn_args.rule[key]

C1_Witness ==
    /\ Returned("merge_results") /\ fn_args.llm = JNull
    /\ fn_args.rule.vcName # <<>> /\ fn_args.rule.boardAppointeeType # <<>>
    /\ fn_ret[1].value = fn_args.rule

\* C2: with an LLM record present, stockCode, companyName and vcName take
\* the LLM's trimmed value when it is a string that is non-empty after
\* trimming, and the rule record's value in every other case (missing key,
\* empty or blank string, non-string).
C2_NamesPreferNonBlankLLM ==
    Returned("merge_results") /\ fn_args.llm.t = "dict" =>
        /\ fn_ret[1].exc = ""
        /\ \A key \in NameKeys :
             LET d == fn_args.llm.d
             IN  fn_ret[1].value[key] =
                   IF key \in DOMAIN d /\ d[key].t = "str" /\ ~IsBlank(d[key].s)
                   THEN Trimmed(d[key].s)
                   ELSE fn_args.rule[key]

\* an empty LLM vcName leaves the rule's name while a padded LLM company
\* name replaces the rule's
C2_Witness ==
    /\ Returned("merge_results") /\ fn_args.llm.t = "dict"
    /\ DOMAIN fn_args.llm.d = {"vcName", "companyName"}
    /\ fn_args.llm.d["vcName"] = JStr(<<>>)
    /\ fn_args.llm.d["companyName"] = JStr(<<" ", "X", " ">>)
    /\ fn_args.rule.vcName = <<"A", "B", "ji", "jin">>
    /\ fn_ret[1].value.vcName = <<"A", "B", "ji", "jin">>
    /\ fn_ret[1].value.companyName = <<"X">>

\* C3, as the claim states it: a flag takes the LLM's value only if that
\* value is exactly the string "0" or "1", and the rule's flag for every
\* other LLM value (missing, any other string, any non-string).
C3_FlagsOnlyExact01 ==
    Returned("merge_results") /\ fn_args.llm.t = "dict" =>
        \A key \in FlagKeys :
            LET d == fn_args.llm.d
            IN  fn_ret[1].value[key] =
                  IF key \in DOMAIN d /\ d[key] \in {JStr(<<"0">>), JStr(<<"1">>)}
                  THEN d[key].s
                  ELSE fn_args.rule[key]

\* C3, amended: a flag takes the text of the LLM's value, trimmed, when
\* that text is exactly "0" or "1" (the strings "0" and "1", also padded
\* with white space, and the numbers 0 and 1), and the rule's flag for
\* every other LLM value.
C3_FlagsTrimmedText01 ==
    Returned("merge_results") /\ fn_args.llm.t = "dict" =>
        /\ fn_ret[1].exc = ""
        /\ \A key \in FlagKeys :
             LET d == fn_args.llm.d
             IN  fn_ret[1].value[key] =
                   IF key \in DOMAIN d /\ Trimmed(PyStr(d[key])) \in {<<"0">>, <<"1">>}
                   THEN Trimmed(PyStr(d[key]))
                   ELSE fn_args.rule[key]

\* the number 1 and the padded string " 1 " both replace a rule flag "0"
C3_Witness ==
    /\ Returned("merge_results") /\ fn_args.llm.t = "dict"
    /\ DOMAIN fn_args.llm.d = {"hasBoardAppointee", "hasSupervisorAppointee"}
    /\ fn_args.llm.d["hasBoardAppointee"] = JInt(1)
    /\ fn_args.llm.d["hasSupervisorAppointee"] = JStr(<<" ", "1", " ">>)
    /\ fn_args.rule.hasBoardAppointee = <<"0">>
    /\ fn_ret[1].value.hasBoardAppointee = <<"1">>
    /\ fn_ret[1].value.hasSupervisorAppointee = <<"1">>

\* C4, as the claim states it: whenever an LLM record is present each type
\* field is the LLM record's trimmed value (an absent one being empty),
\* and the rule record's type value is never kept.
C4_TypesAlwaysFromLLM ==
    Returned("merge_results") /\ fn_args.llm.t = "dict" =>
        \A key \in TypeKeys :
            LET d == fn_args.llm.d
                given == key \in DOMAIN d /\ d[key].t = "str"
                theirs == IF given THEN Trimmed(d[key].s) ELSE <<>>
            IN  /\ (key \notin DOMAIN d \/ given) => fn_ret[1].value[key] = theirs
                /\ fn_args.rule[key] # theirs => fn_ret[1].value[key] # fn_args.rule[key]

\* C4, amended: whenever a non-empty LLM record is present, each type field
\* is the LLM's trimmed value when that value is a string, also an empty
\* one (a missing key counts as the empty string), and the rule record's
\* value when the LLM's value is not a string; an empty LLM record ({})
\* leaves the rule record's type fields as they are.
C4_TypesFromLLMStrings ==
    Returned("merge_results") /\ fn_args.llm.t = "dict" =>
        /\ fn_ret[1].exc = ""
        /\ \A key \in TypeKeys :
             LET d == fn_args.llm.d
             IN  fn_ret[1].value[key] =
                   IF DOMAIN d = {} THEN fn_args.rule[key]
                   ELSE IF key \notin DOMAIN d THEN <<>>
                   ELSE IF d[key].t = "str" THEN Trimmed(d[key].s)
                   ELSE fn_args.rule[key]

\* an empty LLM type replaces the rule's type, a null LLM type does not
C4_Witness ==
    /\ Returned("merge_results") /\ fn_args.llm.t = "dict"
    /\ DOMAIN fn_args.llm.d = {"boardAppointeeType", "supervisorAppointeeType"}
    /\ fn_args.llm.d["boardAppointeeType"] = JStr(<<>>)
    /\ fn_args.llm.d["supervisorAppointeeType"] = JNull
    /\ fn_args.rule.boardAppointeeType = <<"X">>
    /\ fn_ret[1].value.boardAppointeeType = <<>>
    /\ fn_ret[1].value.supervisorAppointeeType = <<"X">>

----------------------------------------------------------------------------
(* Properties of the Candidate Scanner (under SpecScan)                    *)

\* the hits of the lines in line order, each <<name, perc>> with perc the
\* line's percentage as an optional value
RECURSIVE TaggedHits(_, _)
TaggedHits(lines, idx) ==
    IF idx > Len(lines) THEN <<>>
    ELSE (IF AnyIn(VC_KEYWORDS, lines[idx]) /\ NameSearch(lines[idx]) # None
          THEN << <<NameSearch(lines[idx])[1], LinePercent(lines[idx])>> >>
          ELSE <<>>)
         \o TaggedHits(lines, idx + 1)

\* hs without its element at position i
Without(hs, i) == SubSeq(hs, 1, i - 1) \o SubSeq(hs, i + 1, Len(hs))

\* observed hits ranked by descending percent, the earlier line first
\* among equals
RECURSIVE Ranked(_)
Ranked(hs) ==
    IF hs = <<>> THEN <<>>
    ELSE LET top == SetMax({ hs[k][2][1] : k \in 1..Len(hs) })
             first == Least({ k \in 1..Len(hs) : hs[k][2][1] = top })
         IN  <<hs[first]>> \o Ranked(Without(hs, first))

\* the ranking the claim describes: the hits with an observed percentage,
\* ranked, and behind them the hits without one, in line order
ClaimedRanking(text) ==
    LET hs == TaggedHits(splitlines(text), 1)
        seen == SelectSeq(hs, LAMBDA h : h[2] # None)
        unseen == SelectSeq(hs, LAMBDA h : h[2] = None)
    IN  [k \in 1..Len(seen) |-> <<Ranked(seen)[k][1], Ranked(seen)[k][2][1]>>]
        \o [k \in 1..Len(unseen) |-> <<unseen[k][1], 0>>]

\* C9: the returned list is ordered by descending percent with ties in line
\* order, and every candidate without a usable percentage comes after every
\* candidate with an observed percentage (also an observed 0.0 on a later
\* line), the percent-less ones in line order.
C9_PercentlessRankLast ==
    Returned("extract_vc_candidates") => fn_ret[1] = ClaimedRanking(fn_args.text)

----------------------------------------------------------------------------
(* Properties of the Role Tagger (under SpecRole)                          *)

\* some line holding the name has a keyword on it, before it or after it
NameNearKeyword(lines, vc_name, keywords) ==
    \E i \in 1..Len(lines) :
        /\ In(vc_name, lines[i])
        /\ \/ AnyIn(keywords, lines[i])
           \/ i > 1 /\ AnyIn(keywords, lines[i - 1])
           \/ i < Len(lines) /\ AnyIn(keywords, lines[i + 1])

\* C10: for a non-empty VC name flag_role returns "1" if and only if a line
\* containing the name has a role keyword on it, on the line before or on
\* the line after, and "0" otherwise; for an empty name it returns "0".
C10_FlagRoleIffWindow ==
    Returned("flag_role") =>
        fn_ret[1] = IF /\ fn_args.vc_name # <<>>
                       /\ NameNearKeyword(splitlines(fn_args.text), fn_args.vc_name,
                                          ROLE_KEYWORDS[fn_args.role])
                    THEN <<"1">> ELSE <<"0">>

\* "1" where the keyword stands only on the line after the name's
C10_Witness ==
    /\ Returned("flag_role") /\ fn_ret[1] = <<"1">>
    /\ LET lines == splitlines(fn_args.text)
       IN  \A i \in 1..Len(lines) :
             In(fn_args.vc_name, lines[i]) =>
                 /\ ~AnyIn(ROLE_KEYWORDS[fn_args.role], lines[i])
                 /\ (i > 1 => ~AnyIn(ROLE_KEYWORDS[fn_args.role], lines[i - 1]))

----------------------------------------------------------------------------
(* Properties of the batch run (under Spec)                                *)

NoVcDefaults(r) ==
    r.vcName = <<>> =>
        /\ r.vcPercent = <<"0", "%">>
        /\ \A key \in FlagKeys : r[key] = <<"0">>
        /\ \A key \in TypeKeys : r[key] = <<>>

\* C5: every record produced for output, the rule record and the merged
\* record, has its dependent fields at their defaults when vcName is empty:
\* vcPercent "0%", the three flags "0", the three types "".
C5_NoVcMeansDefaults ==
    /\ pc \in {"ask", "merge", "write"} => NoVcDefaults(rule_guess)
    /\ \A k \in 1..Len(results) : NoVcDefaults(results[k])

\* C6: an LLM transport error while one document is processed never aborts
\* the batch: it is never the exception that leaves the loop.
C6_TransportErrorNeverAborts == exc # "APIConnectionError"

\* the LLM stage gave nothing usable as the JSON record
LLMUnusable == ~client \/ llm_result.t # "dict"

\* C7: when the LLM stage is unavailable or its reply cannot be used as the
\* JSON record, nothing is raised, the merged record and the row written
\* equal the rule-based record, and the loop goes on.
C7_UnusableReplyKeepsRuleRecord ==
    /\ exc # "AttributeError"
    /\ pc = "write" /\ LLMUnusable => merged = rule_guess
    /\ pc = "loop" /\ done >= 1 /\ LLMUnusable => disk[Len(disk)] = Row(rule_guess)

\* the records a file can end with: its rule record merged with any result
\* of the LLM stage
PossibleRecords(file) ==
    LET rule == rule_based_result(extract_pdf(file.pages), file.name)[1]
        outs == { merge_results(rule, llm) :
                    llm \in {JNull} \cup { ParsedReply(msg) : msg \in ReplyContents } }
    IN  { o.value : o \in { x \in outs : x.exc = "" } }

Running == pc \in {"loop", "ask", "merge", "write", "finally", "returned", "raised"}

RowsOf(k) == [j \in 1..k |-> Row(results[j])]

\* C8, as the claim states it: once k documents have completed the output
\* holds the header row and exactly k data rows, flushed, for every k.
C8_HeaderAndRowsAlways ==
    Running => disk = <<HeaderRow>> \o RowsOf(done) /\ buffer = <<>>

\* C8, amended: documents are processed one at a time; once k >= 1
\* documents have completed the output holds the header row followed by
\* exactly k data rows, one per completed document in processing order,
\* flushed; while none has completed the output is empty (the header is
\* written with the first row); if a later document fails fatally the rows
\* remain and the output handle is closed.
C8_RowsWrittenIncrementally ==
    Running =>
        /\ disk = IF done = 0 THEN <<>> ELSE <<HeaderRow>> \o RowsOf(done)
        /\ buffer = <<>>
        /\ done <= Len(files) /\ Len(results) \in {done, done + 1}
        /\ \A j \in 1..done : results[j] \in PossibleRecords(files[j])
        /\ pc \in {"returned", "raised"} =>
              csv_file = IF done = 0 THEN "None" ELSE "closed"

\* a later document failed fatally after two rows were written
C8_Witness ==
    /\ pc = "raised" /\ done = 2 /\ Len(files) > 2
    /\ csv_file = "closed"
    /\ disk = <<HeaderRow>> \o RowsOf(2)

=============================================================================
